---------------------------- MODULE Spec2Model ----------------------------
(***************************************************************************)
(* A model of CodeChecker (src/src/index.ts): the checker instance, the    *)
(* process-wide config, the files it reads, and the operations of its      *)
(* public surface (constructor, setters, restore, test, assert).           *)
(*                                                                         *)
(* Text.  A string is a sequence of UTF-16 code units.  Every lexical      *)
(* token of the TypeScript subset used here is shortened to ONE code unit: *)
(*    "x"  export            "t"  type             "c"  const v:           *)
(*    "="  =                 ";"  ;                "s"  string             *)
(*    "n"  number            "1"  a numeric literal                        *)
(*    "q"  a string literal  "A" "B" "Z" "M"  identifiers (type names)     *)
(*    "m"  namespace N       "{" "}"  the braces of its body               *)
(*    "\n" a line break      EAcute  a comment holding the one character   *)
(*    U+00E9 (one code unit, two bytes in UTF-8)                           *)
(*    Repl  U+FFFD, what the UTF-8 decoder writes for a malformed byte     *)
(*    sequence (three bytes in UTF-8)                                      *)
(* so  export type A = string;  is  <<"x","t","A","=","s",";">>  and       *)
(* const v: A = "q";  is  <<"c","A","=","q",";">>.                         *)
(***************************************************************************)
EXTENDS Naturals, Sequences, FiniteSets

\* ------------------------------------------------------------------ text

EAcute == "U+00E9"
Repl == "U+FFFD"
NL == "\n"

Identifiers == {"A", "B", "Z", "M"}
TypeKeywords == {"s", "n"}
TypeExprs == TypeKeywords \cup Identifiers
Literals == {"1", "q"}
Trivia == {NL, EAcute}

\* the elements of a sequence
Range(s) == {s[i] : i \in 1..Len(s)}

\* s without its first k elements
Drop(s, k) == SubSeq(s, k + 1, Len(s))

\* Buffer.from(str): the UTF-8 bytes of a string (an ASCII unit is its own byte)
RECURSIVE BufferFrom(_)
BufferFrom(str) ==
    IF str = <<>> THEN <<>>
    ELSE (CASE Head(str) = EAcute -> <<"C3", "A9">>
            [] Head(str) = Repl -> <<"EF", "BF", "BD">>
            [] OTHER -> <<Head(str)>>) \o BufferFrom(Tail(str))

\* buf.toString('utf-8'): a malformed or cut sequence decodes to U+FFFD
RECURSIVE ToStringUtf8(_)
ToStringUtf8(buf) ==
    IF buf = <<>> THEN <<>>
    ELSE LET b == Head(buf)
             two == Len(buf) >= 2
             three == Len(buf) >= 3
         IN CASE b = "C3" /\ two /\ buf[2] = "A9" ->
                     <<EAcute>> \o ToStringUtf8(Drop(buf, 2))
              [] b = "EF" /\ three /\ buf[2] = "BF" /\ buf[3] = "BD" ->
                     <<Repl>> \o ToStringUtf8(Drop(buf, 3))
              [] b = "EF" /\ two /\ buf[2] = "BF" ->
                     <<Repl>> \o ToStringUtf8(Drop(buf, 2))
              [] b \in {"C3", "A9", "EF", "BF", "BD"} ->
                     <<Repl>> \o ToStringUtf8(Drop(buf, 1))
              [] OTHER -> <<b>> \o ToStringUtf8(Drop(buf, 1))

\* codeBuffer.subarray(pos, end): the bytes at the 0-based offsets pos..end-1
Subarray(buf, pos, end) ==
    SubSeq(buf, pos + 1, IF end < Len(buf) THEN end ELSE Len(buf))

\* ---------------------------------------------------------------- parser

\* The scanner of ts.createSourceFile: the tokens of a text, each with pos (the
\* 0-based offset where its leading trivia starts), end (the offset after it)
\* and nl (a line break precedes it).
RECURSIVE Scan(_, _, _, _, _)
Scan(text, i, pos, nl, acc) ==
    IF i > Len(text) THEN acc
    ELSE IF text[i] \in Trivia
         THEN Scan(text, i + 1, pos, nl \/ text[i] = NL, acc)
         ELSE Scan(text, i + 1, i, FALSE,
                   Append(acc, [c |-> text[i], pos |-> pos, end |-> i, nl |-> nl]))

Tokens(text) == Scan(text, 1, 0, FALSE, <<>>)

\* the token at k, "EOF" past the end
At(toks, k) == IF k <= Len(toks) THEN toks[k].c ELSE "EOF"

\* a statement ends at ";", or without it before a line break or the end of
\* the text (automatic semicolon insertion); otherwise "';' expected"
StatementEnd(toks, last) ==
    LET semi == At(toks, last + 1) = ";"
    IN [endTok |-> IF semi THEN last + 1 ELSE last,
        missingSemi |-> ~semi /\ last + 1 <= Len(toks) /\ ~toks[last + 1].nl]

\* One top-level statement starting at token k: a type alias declaration
\* ([export] type Name = Type ;), a variable statement ([export] const v: Type
\* = Literal ;), or a token the parser cannot start a statement with.
ParseStatement(toks, k) ==
    LET m == IF At(toks, k) = "x" THEN 1 ELSE 0
        h == k + m
    IN IF /\ At(toks, h) = "t"
          /\ At(toks, h + 1) \in Identifiers
          /\ ~toks[h + 1].nl
          /\ At(toks, h + 2) = "="
          /\ At(toks, h + 3) \in TypeExprs
       THEN LET e == StatementEnd(toks, h + 3)
            IN [node |-> [kind |-> "TypeAliasDeclaration", name |-> toks[h + 1].c,
                          type |-> toks[h + 3].c, exported |-> m = 1,
                          pos |-> toks[k].pos, end |-> toks[e.endTok].end,
                          missingSemi |-> e.missingSemi, init |-> ""],
                next |-> e.endTok + 1]
       ELSE IF /\ At(toks, h) = "c"
               /\ At(toks, h + 1) \in TypeExprs
               /\ At(toks, h + 2) = "="
               /\ At(toks, h + 3) \in Literals
       THEN LET e == StatementEnd(toks, h + 3)
            IN [node |-> [kind |-> "VariableStatement", name |-> "v",
                          type |-> toks[h + 1].c, exported |-> m = 1,
                          pos |-> toks[k].pos, end |-> toks[e.endTok].end,
                          missingSemi |-> e.missingSemi, init |-> toks[h + 3].c],
                next |-> e.endTok + 1]
       ELSE IF /\ At(toks, h) = "m"
               /\ At(toks, h + 1) = "{"
               /\ \E j \in (h + 2)..Len(toks) : toks[j].c = "}"
       THEN LET close == CHOOSE j \in (h + 2)..Len(toks) :
                             /\ toks[j].c = "}"
                             /\ \A i \in (h + 2)..(j - 1) : toks[i].c # "}"
            IN [node |-> [kind |-> "ModuleDeclaration", name |-> "N", type |-> "",
                          exported |-> m = 1,
                          pos |-> toks[k].pos, end |-> toks[close].end,
                          missingSemi |-> FALSE, init |-> ""],
                next |-> close + 1]
       ELSE [node |-> [kind |-> "Unknown", name |-> toks[k].c, type |-> "",
                       exported |-> FALSE, pos |-> toks[k].pos, end |-> toks[k].end,
                       missingSemi |-> FALSE, init |-> ""],
             next |-> k + 1]

RECURSIVE ParseStatements(_, _)
ParseStatements(toks, k) ==
    IF k > Len(toks) THEN <<>>
    ELSE LET p == ParseStatement(toks, k)
         IN <<p.node>> \o ParseStatements(toks, p.next)

\* ts.createSourceFile(fileName, sourceText, ScriptTarget.Latest): the top-level
\* statements (the children forEachChild visits)
CreateSourceFile(fileName, sourceText) ==
    [fileName |-> fileName, text |-> sourceText,
     statements |-> ParseStatements(Tokens(sourceText), 1)]

IsTypeAliasDeclaration(node) == node.kind = "TypeAliasDeclaration"

\* ------------------------------------------------------------ Type Table

\* A Map<string, string>: the entries in insertion order, keys unique.
MapHas(map, key) == \E i \in 1..Len(map) : map[i].key = key

\* map.get(key): [defined |-> FALSE] stands for undefined
MapGet(map, key) ==
    IF MapHas(map, key)
    THEN [defined |-> TRUE,
          value |-> map[CHOOSE i \in 1..Len(map) : map[i].key = key].value]
    ELSE [defined |-> FALSE, value |-> <<>>]

\* map.set(key, value): a present key keeps its place and takes the new value
MapSet(map, key, value) ==
    IF MapHas(map, key)
    THEN [i \in 1..Len(map) |->
              IF map[i].key = key THEN [key |-> key, value |-> value] ELSE map[i]]
    ELSE Append(map, [key |-> key, value |-> value])

MapKeys(map) == {map[i].key : i \in 1..Len(map)}

\* typeNodes: the top-level children that are type alias declarations
RECURSIVE TypeNodes(_)
TypeNodes(statements) ==
    IF statements = <<>> THEN <<>>
    ELSE (IF IsTypeAliasDeclaration(Head(statements))
          THEN <<Head(statements)>> ELSE <<>>) \o TypeNodes(Tail(statements))

\* typeNodes.forEach: slice the BYTES of the code at the node's pos and end
\* (offsets in code units) and store the decoded slice under the node's name
RECURSIVE SetTypes(_, _, _)
SetTypes(map, typeNodes, codeBuffer) ==
    IF typeNodes = <<>> THEN map
    ELSE LET node == Head(typeNodes)
             type == ToStringUtf8(Subarray(codeBuffer, node.pos, node.end))
         IN SetTypes(MapSet(map, node.name, type), Tail(typeNodes), codeBuffer)

\* extractTypesAsStrings without _types.clear(): the keys of the table before
\* the call stay.  C4 does not hold of it.
ExtractTypesKeepingOld(oldTypes, sourceText) ==
    LET node == CreateSourceFile("extractTypes.ts", sourceText)
    IN SetTypes(oldTypes, TypeNodes(node.statements), BufferFrom(sourceText))

\* extractTypesAsStrings: _types.clear(), then one set per type node.  The
\* table before the call is a parameter only to say that it is cleared.
ExtractTypesAsStrings(oldTypes, sourceText) ==
    LET cleared == SubSeq(oldTypes, 1, 0)
        node == CreateSourceFile("extractTypes.ts", sourceText)
    IN SetTypes(cleared, TypeNodes(node.statements), BufferFrom(sourceText))

\* ------------------------------------------------------------ type checker
\* What ts.createProgram / getPreEmitDiagnostics report for the subset above.
\* A program is a sequence of source files [fileName, text, statements] and the
\* set lib of the type names its standard-library root declares.

\* a file with a top-level export is a module: its declarations are its own
IsModule(file) ==
    \E i \in 1..Len(file.statements) : file.statements[i].exported

ScriptFiles(files) == {f \in 1..Len(files) : ~IsModule(files[f])}

\* the statements of file f that declare name as the given kind
DeclsIn(files, f, kind, name) ==
    {i \in 1..Len(files[f].statements) :
        /\ files[f].statements[i].kind = kind
        /\ files[f].statements[i].name = name}

\* the files whose declarations the statements of file f see and merge with:
\* a module its own, a script all the scripts of the program
Scope(files, f) == IF IsModule(files[f]) THEN {f} ELSE ScriptFiles(files)

\* how many declarations of the name merge in the scope of file f
DeclCount(files, lib, f, kind, name) ==
    Cardinality(UNION {{<<g, i>> : i \in DeclsIn(files, g, kind, name)} :
                          g \in Scope(files, f)})
    + (IF ~IsModule(files[f]) /\ kind = "TypeAliasDeclaration" /\ name \in lib
       THEN 1 ELSE 0)

\* the declaration a type name used in file f resolves to: in the module itself,
\* else among the global scripts, else in the standard library, else none
Lookup(files, lib, f, name) ==
    LET local == DeclsIn(files, f, "TypeAliasDeclaration", name)
        globals == {g \in ScriptFiles(files) :
                       DeclsIn(files, g, "TypeAliasDeclaration", name) # {}}
        first(S) == CHOOSE x \in S : \A y \in S : x <= y
    IN IF local # {} THEN [found |-> "file", file |-> f, stmt |-> first(local)]
       ELSE IF globals # {}
       THEN [found |-> "file", file |-> first(globals),
             stmt |-> first(DeclsIn(files, first(globals),
                                    "TypeAliasDeclaration", name))]
       ELSE IF name \in lib THEN [found |-> "lib", file |-> 0, stmt |-> 0]
       ELSE [found |-> "none", file |-> 0, stmt |-> 0]

\* the type a type expression of file f denotes: "string", "number", a library
\* type (its name), "error" (cannot find name) or "any" (fuel spent: the alias
\* refers to itself)
RECURSIVE ResolveType(_, _, _, _, _)
ResolveType(files, lib, f, type, fuel) ==
    IF type = "s" THEN "string"
    ELSE IF type = "n" THEN "number"
    ELSE LET d == Lookup(files, lib, f, type)
         IN CASE d.found = "none" -> "error"
              [] d.found = "lib" -> type
              [] fuel = 0 -> "any"
              [] OTHER -> ResolveType(files, lib, d.file,
                                      files[d.file].statements[d.stmt].type, fuel - 1)

\* every alias chain is shorter than the number of statements of the program
RECURSIVE Fuel(_)
Fuel(files) ==
    IF files = <<>> THEN 0 ELSE Len(Head(files).statements) + Fuel(Tail(files))

TypeOfLiteral(init) == IF init = "1" THEN "number" ELSE "string"

Message(code, a, b) == [code |-> code, a |-> a, b |-> b]

Diagnostic(fileName, messageText) ==
    [file |-> fileName, messageText |-> messageText]

\* the diagnostics of statement i of file f, syntactic and semantic
StatementDiagnostics(files, lib, f, i) ==
    LET node == files[f].statements[i]
        name == files[f].fileName
        t == ResolveType(files, lib, f, node.type, Fuel(files))
        unknownRef == node.type \in Identifiers /\ t = "error"
                      /\ Lookup(files, lib, f, node.type).found = "none"
        when(cond, code, a, b) ==
            IF cond THEN <<Diagnostic(name, Message(code, a, b))>> ELSE <<>>
    IN CASE node.kind = "Unknown" ->
                when(TRUE, IF node.name = Repl THEN "TS1127" ELSE "TS1128",
                     node.name, "")
         [] node.kind = "ModuleDeclaration" -> <<>>
         [] node.kind = "TypeAliasDeclaration" ->
                when(node.missingSemi, "TS1005", ";", "")
                \o when(DeclCount(files, lib, f, node.kind, node.name) > 1,
                        "TS2300", node.name, "")
                \o when(unknownRef, "TS2304", node.type, "")
                \o when(t = "any", "TS2456", node.name, "")
         [] OTHER ->
                when(node.missingSemi, "TS1005", ";", "")
                \o when(DeclCount(files, lib, f, node.kind, node.name) > 1,
                        "TS2451", node.name, "")
                \o when(unknownRef, "TS2304", node.type, "")
                \o when(t \notin {"error", "any", TypeOfLiteral(node.init)},
                        "TS2322", TypeOfLiteral(node.init), t)

RECURSIVE FileDiagnostics(_, _, _, _)
FileDiagnostics(files, lib, f, i) ==
    IF i > Len(files[f].statements) THEN <<>>
    ELSE StatementDiagnostics(files, lib, f, i)
         \o FileDiagnostics(files, lib, f, i + 1)

RECURSIVE FilesDiagnostics(_, _, _)
FilesDiagnostics(files, lib, f) ==
    IF f > Len(files) THEN <<>>
    ELSE FileDiagnostics(files, lib, f, 1) \o FilesDiagnostics(files, lib, f + 1)

\* ------------------------------------------------------------------ files

Undefined == "undefined"

\* What a file system path holds: [defined |-> FALSE] is a path that cannot be
\* read.
NoFile == [defined |-> FALSE, value |-> <<>>]
FileOf(text) == [defined |-> TRUE, value |-> text]

\* the reference files: "a.ts" declares A and B, "b.ts" only B, after a comment
\* with a two-byte character
TextA == <<"x", "t", "A", "=", "n", ";", NL, NL, "x", "t", "B", "=", "s", ";", NL>>
TextB == <<EAcute, NL, "x", "t", "B", "=", "n", ";", NL>>

\* the global declaration files: ambient (not exported) declarations
TextG == <<"t", "B", "=", "s", ";", NL>>
TextH == <<"t", "Z", "=", "n", ";", NL>>

RefPaths == {"a.ts", "b.ts"}
GlobalFiles == {"g.d.ts", "h.d.ts"}
AllPaths == RefPaths \cup GlobalFiles \cup {"missing.ts"}

\* the standard-library root of a version tag, and the type names it declares
\* that the subset can mention (Map is declared from es2015 on)
LibVersions == {"es5", "es2022"}
LibFileName(lib) == IF lib = "es5" THEN "lib.es5.d.ts" ELSE "lib.es2022.d.ts"
LibDeclares(lib) == IF lib = "es5" THEN {} ELSE {"M"}

\* the order in which diagnostics are sorted by file
SortedFileNames == <<"a.ts", "b.ts", "g.d.ts", "h.d.ts", "missing.ts", "temp.ts">>

\* -------------------------------------------------------------- variables

VARIABLES
    disk,               \* the file system: path -> file
    answer,             \* the engine: the file it last asked the host for and
                        \* what the host answered
    defaultGlobalPaths, \* config.defaultGlobalPaths
    pathname,           \* this._pathname
    globalTypes,        \* this._globalTypes
    globalPaths,        \* this._globalPaths, a Set in insertion order
    types,              \* this._types
    version,            \* this._version
    code,               \* this.code
    defaultsAtSet,      \* history: config.defaultGlobalPaths as the constructor
                        \* or the globalPaths setter last read it
    last                \* the last call: its arguments and what it did

vars == <<disk, answer, defaultGlobalPaths, pathname, globalTypes, globalPaths, types,
          version, code, defaultsAtSet, last>>

fields == <<pathname, globalTypes, globalPaths, types, version, code>>

\* ------------------------------------------------------------------- host

\* realHost.getSourceFile / fileExists: the file system
RealFileExists(filePath) == filePath \in DOMAIN disk /\ disk[filePath].defined

RealGetSourceFile(fileName) ==
    IF RealFileExists(fileName)
    THEN [defined |-> TRUE,
          value |-> CreateSourceFile(fileName, disk[fileName].value)]
    ELSE [defined |-> FALSE, value |-> CreateSourceFile(fileName, <<>>)]

\* realHost.readFile(fileName): the text of the file, undefined when it cannot
\* be read
RealReadFile(fileName) ==
    IF RealFileExists(fileName)
    THEN [defined |-> TRUE, value |-> disk[fileName].value]
    ELSE [defined |-> FALSE, value |-> <<>>]

\* createVirtualHost(sourceFile): 'temp.ts' is answered from memory
HostFileExists(sourceFile, filePath) ==
    filePath = "temp.ts" \/ RealFileExists(filePath)

HostGetSourceFile(sourceFile, sourceFilename) ==
    IF sourceFilename = "temp.ts"
    THEN [defined |-> TRUE, value |-> sourceFile]
    ELSE RealGetSourceFile(sourceFilename)

\* readFile returns a value only in the branch of 'temp.ts'
HostReadFile(sourceFile, filePath) ==
    IF filePath = "temp.ts"
    THEN [defined |-> TRUE, value |-> sourceFile.text]
    ELSE [defined |-> FALSE, value |-> <<>>]

\* ---------------------------------------------------------------- compile

\* the source files ts.createProgram loads for the roots after the library
RECURSIVE ProgramFiles(_, _)
ProgramFiles(sourceFile, rootNames) ==
    IF rootNames = <<>> THEN <<>>
    ELSE LET got == HostGetSourceFile(sourceFile, Head(rootNames))
         IN (IF got.defined THEN <<got.value>> ELSE <<>>)
            \o ProgramFiles(sourceFile, Tail(rootNames))

\* a root that cannot be read: "File '...' not found."
RECURSIVE MissingRoots(_, _)
MissingRoots(sourceFile, rootNames) ==
    IF rootNames = <<>> THEN <<>>
    ELSE (IF HostFileExists(sourceFile, Head(rootNames)) THEN <<>>
          ELSE <<Diagnostic("", Message("TS6053", Head(rootNames), ""))>>)
         \o MissingRoots(sourceFile, Tail(rootNames))

\* the diagnostics of the files, sorted by file name
RECURSIVE SortedDiagnostics(_, _, _)
SortedDiagnostics(files, lib, k) ==
    IF k > Len(SortedFileNames) THEN <<>>
    ELSE LET at == {f \in 1..Len(files) : files[f].fileName = SortedFileNames[k]}
         IN (IF at = {} THEN <<>>
             ELSE FileDiagnostics(files, lib, CHOOSE f \in at : TRUE, 1))
            \o SortedDiagnostics(files, lib, k + 1)

\* ts.getPreEmitDiagnostics(program)
GetPreEmitDiagnostics(sourceFile, rootNames, lib) ==
    LET files == ProgramFiles(sourceFile, rootNames)
    IN MissingRoots(sourceFile, rootNames)
       \o SortedDiagnostics(files, LibDeclares(lib), 1)

\* program.emit().diagnostics: with the default compiler options (no
\* declaration output) and a writeFile that does nothing, emit reports nothing
EmitDiagnostics(sourceFile, rootNames, lib) == SubSeq(<<>>, 1, 0)

\* compileTypeScriptCode(filename, code, lib): the roots handed to
\* createProgram and emitResult.diagnostics.concat(diagnostics)
CompileTypeScriptCode(filename, unit, lib) ==
    LET sourceFile == CreateSourceFile(filename, unit)
        userRoots == <<filename>> \o globalPaths
    IN [rootNames |-> <<LibFileName(lib)>> \o userRoots,
        diagnostics |-> EmitDiagnostics(sourceFile, userRoots, lib)
                        \o GetPreEmitDiagnostics(sourceFile, userRoots, lib)]

\* ts.flattenDiagnosticMessageText(messageText, '\n\n', 2): the diagnostics of
\* the subset carry a plain string, which flattens to itself
FlattenDiagnosticMessageText(messageText) == messageText

\* the messages in the reverse of the order of the diagnostics.  C12 does not
\* hold of it.
RECURSIVE MapMessagesReversed(_)
MapMessagesReversed(diagnostics) ==
    IF diagnostics = <<>> THEN <<>>
    ELSE MapMessagesReversed(Tail(diagnostics))
         \o <<FlattenDiagnosticMessageText(Head(diagnostics).messageText)>>

RECURSIVE MapMessages(_)
MapMessages(diagnostics) ==
    IF diagnostics = <<>> THEN <<>>
    ELSE <<FlattenDiagnosticMessageText(Head(diagnostics).messageText)>>
         \o MapMessages(Tail(diagnostics))

\* ----------------------------------------------------------------- inputs

MaxPaths == 2

\* the sequences over S of length at most n
SeqsUpTo(S, n) == UNION {[1..k -> S] : k \in 0..n}

\* arrays of paths, with repeats and in either order
PathLists == SeqsUpTo(GlobalFiles, MaxPaths)
DefaultPathLists == SeqsUpTo({"h.d.ts"}, MaxPaths)
PathnameArgs == {"", "a.ts", "b.ts", "missing.ts"}

\* type B = string;  given as global declarations text
TextGlobalB == <<"t", "B", "=", "s", ";">>
GlobalTypesArgs == {<<>>, TextGlobalB}

\* the constructor's options; a pathname and globalPaths are not given together
\* (the setters reach every combination of the fields)
Options ==
    {o \in [pathname : PathnameArgs, globalTypes : GlobalTypesArgs,
            globalPaths : PathLists] : o.pathname = "" \/ o.globalPaths = <<>>}

\* const v: string = "q";   const v: B = "q";
SnippetOk == <<"c", "s", "=", "q", ";">>
SnippetB == <<"c", "B", "=", "q", ";">>
Snippets == {SnippetOk, SnippetB}

\* type A = Z; const v: string = 1;  a snippet with two errors of two kinds
SnippetTwoErrors == <<"t", "A", "=", "Z", ";", "c", "s", "=", "1", ";">>

\* typeName: left out (undefined), the empty string, a name
TypeNameArgs == {Undefined, "", "A"}
MsgArgs == {Undefined, "m"}

\* ----------------------------------------------------------------- errors

NoError == [name |-> "", message |-> <<>>, code |-> <<>>]

\* new Error(`Type '${typeName}' not found in file '${this.pathname}'`)
TypeNotFoundError(typeName, path) ==
    [name |-> "Error", code |-> <<>>,
     message |-> <<Message("Type not found in file", typeName, path)>>]

\* new Error(`Cannot read file: '${this.pathname}'`)
CannotReadError(path) ==
    [name |-> "Error", code |-> <<>>,
     message |-> <<Message("Cannot read file", path, "")>>]

\* [...messages, msg].filter(Boolean).join('\n') in a TypeError
TypeMismatchError(messages, msg) ==
    [name |-> "TypeError", code |-> <<>>,
     message |-> messages \o (IF msg \in {Undefined, ""} THEN <<>>
                              ELSE <<Message("msg", msg, "")>>)]

\* assert(false, `Expected code '${testCode}' to be invalid${...msg}`)
ExpectedInvalidError(testCode, msg) ==
    [name |-> "AssertionError", code |-> testCode,
     message |-> <<Message("Expected code to be invalid",
                           IF msg \in {Undefined, ""} THEN "" ELSE msg, "")>>]

\* ------------------------------------------------------------- last call

\* the record of a call: op and arguments, whether it threw and what, what it
\* returned, and for test/assert the unit compiled, the roots, the diagnostics
\* and the Verdict.  again: a test call right after a test call of the same
\* snippet and type name that gave a Verdict.
Call(op) ==
    [op |-> op, from |-> pathname, pathArg |-> "", textArg |-> <<>>,
     pathsArg |-> <<>>, typeName |-> Undefined, msg |-> Undefined,
     snippet |-> <<>>, threw |-> FALSE, error |-> NoError, ret |-> "void",
     compiled |-> FALSE, unit |-> <<>>, rootNames |-> <<>>, diagnostics |-> <<>>,
     valid |-> FALSE, messages |-> <<>>, asserter |-> FALSE, again |-> FALSE]

\* ------------------------------------------------------------- the class

\* an array in place of the Set: every occurrence stays.  C7 does not hold of
\* it.
NewArray(array) == array

\* new Set([...]): the elements in the order of their first occurrence
RECURSIVE NewSet(_)
NewSet(array) ==
    IF array = <<>> THEN <<>>
    ELSE LET rest == NewSet(SubSeq(array, 1, Len(array) - 1))
             x == array[Len(array)]
         IN IF x \in Range(rest) THEN rest ELSE Append(rest, x)

\* fetchCode(): '' without a pathname, the file's text, or the read error
FetchCode(path) ==
    IF path = "" THEN [threw |-> FALSE, error |-> NoError, code |-> <<>>]
    ELSE IF RealFileExists(path)
    THEN [threw |-> FALSE, error |-> NoError, code |-> disk[path].value]
    ELSE [threw |-> TRUE, error |-> CannotReadError(path), code |-> code]

\* init(): fetchCode(), then extractTypesAsStrings(); a throw of fetchCode
\* leaves code and the table as they were
InitInstance(path, oldTypes) ==
    LET fetched == FetchCode(path)
    IN [threw |-> fetched.threw, error |-> fetched.error, code |-> fetched.code,
        types |-> IF fetched.threw THEN oldTypes
                  ELSE ExtractTypesAsStrings(oldTypes, fetched.code)]

\* typeName && this.types.get(typeName): undefined without a type name, ''
\* for the empty string, else what the table holds
SelectedType(typeName) ==
    IF typeName = Undefined THEN [defined |-> FALSE, value |-> <<>>]
    ELSE IF typeName = "" THEN [defined |-> TRUE, value |-> <<>>]
    ELSE MapGet(types, typeName)

\* a truthy typeName: given and not ''
Named(typeName) == typeName \notin {Undefined, ""}

\* a truthy text: defined and not ''
Truthy(str) == str.defined /\ str.value # <<>>

\* this.code whatever the type name: the whole reference file is the body.  C9
\* does not hold of it.
SelectWholeCode(selectedType) == code

\* selectedType ?? this.code
SelectBody(selectedType) ==
    IF selectedType.defined THEN selectedType.value ELSE code

\* `${this.globalTypes}\n${code}\n${testCode}`: the line of the global text
\* also when the text is empty.  The amended C8 does not hold of it.
UnitTextWithGlobalLine(body, testCode) ==
    globalTypes \o <<NL>> \o body \o <<NL>> \o testCode

\* `${globalTypes}${code}\n${testCode}`, globalTypes being
\* this.globalTypes ? `${this.globalTypes}\n` : ''
UnitText(body, testCode) ==
    (IF globalTypes # <<>> THEN globalTypes \o <<NL>> ELSE <<>>)
    \o body \o <<NL>> \o testCode

\* { valid: true, messages }: a Verdict that does not look at the messages.  C1
\* does not hold of it.
VerdictAlwaysValid(messages) == [valid |-> TRUE, messages |-> messages]

\* { valid: !messages.length, messages }
Verdict(messages) == [valid |-> Len(messages) = 0, messages |-> messages]

\* _test(testCode, typeName): the lookup, the unit and the Verdict
PrivateTest(testCode, typeName) ==
    LET selectedType == SelectedType(typeName)
        unit == UnitText(SelectBody(selectedType), testCode)
        result == CompileTypeScriptCode("temp.ts", unit, version)
        verdict == Verdict(MapMessages(result.diagnostics))
    IN IF Named(typeName) /\ ~Truthy(selectedType)
       THEN [threw |-> TRUE, error |-> TypeNotFoundError(typeName, pathname),
             compiled |-> FALSE, unit |-> <<>>, rootNames |-> <<>>,
             diagnostics |-> <<>>, valid |-> FALSE, messages |-> <<>>]
       ELSE [threw |-> FALSE, error |-> NoError,
             compiled |-> TRUE, unit |-> unit, rootNames |-> result.rootNames,
             diagnostics |-> result.diagnostics,
             valid |-> verdict.valid, messages |-> verdict.messages]

\* the record of a test or assert call
Tested(op, testCode, typeName, t) ==
    LET again == /\ op = "test"
                 /\ last.op = "test"
                 /\ last.compiled
                 /\ last.snippet = testCode
                 /\ last.typeName = typeName
    IN [Call(op) EXCEPT
           !.snippet = testCode, !.typeName = typeName,
           !.threw = t.threw, !.error = t.error, !.compiled = t.compiled,
           !.unit = t.unit, !.rootNames = t.rootNames,
           !.diagnostics = t.diagnostics, !.valid = t.valid,
           !.messages = t.messages,
           !.again = again]

\* ---------------------------------------------------------------- actions

\* new CodeChecker({ pathname, globalTypes, globalPaths }).  When init() throws
\* no instance is made: the caller is left with the instance it had.
Construct(options) ==
    LET made == InitInstance(options.pathname, <<>>)
    IN /\ IF made.threw
          THEN UNCHANGED <<fields, defaultsAtSet>>
          ELSE /\ pathname' = options.pathname
               /\ globalTypes' = options.globalTypes
               /\ globalPaths' = NewSet(options.globalPaths \o defaultGlobalPaths)
               /\ types' = made.types
               /\ version' = "es2022"
               /\ code' = made.code
               /\ defaultsAtSet' = Range(defaultGlobalPaths)
       /\ last' = [Call("construct") EXCEPT
                      !.from = "", !.pathArg = options.pathname,
                      !.textArg = options.globalTypes,
                      !.pathsArg = options.globalPaths,
                      !.threw = made.threw, !.error = made.error]
       /\ UNCHANGED <<disk, answer, defaultGlobalPaths>>

\* set pathname(pathname): the path is stored, then init()
SetPathname(path) ==
    LET made == InitInstance(path, types)
    IN /\ pathname' = path
       /\ code' = made.code
       /\ types' = made.types
       /\ last' = [Call("setPathname") EXCEPT
                      !.pathArg = path, !.threw = made.threw, !.error = made.error]
       /\ UNCHANGED <<disk, answer,
                      defaultGlobalPaths, globalTypes, globalPaths, version,
                      defaultsAtSet>>

\* restore(pathname?): this.pathname = pathname ?? this.pathname, then init()
\* once more (not reached when the setter threw)
Restore(path) ==
    LET target == IF path = Undefined THEN pathname ELSE path
        first == InitInstance(target, types)
        second == IF first.threw THEN first
                  ELSE [threw |-> FALSE, error |-> NoError, code |-> first.code,
                        types |-> ExtractTypesAsStrings(first.types, first.code)]
    IN /\ pathname' = target
       /\ code' = second.code
       /\ types' = second.types
       /\ last' = [Call("restore") EXCEPT
                      !.pathArg = path, !.threw = second.threw,
                      !.error = second.error]
       /\ UNCHANGED <<disk, answer,
                      defaultGlobalPaths, globalTypes, globalPaths, version,
                      defaultsAtSet>>

\* a setter of the global text that also empties the paths.  C5 does not hold
\* of it.
SetGlobalTypesOnly(text) ==
    /\ globalTypes' = text
    /\ globalPaths' = <<>>
    /\ last' = [Call("setGlobalTypes") EXCEPT !.textArg = text,
                                              !.pathsArg = globalPaths]
    /\ UNCHANGED <<disk, answer,
                   defaultGlobalPaths, pathname, types, version,
                   code, defaultsAtSet>>

\* set globalTypes(types)
SetGlobalTypes(text) ==
    /\ globalTypes' = text
    /\ last' = [Call("setGlobalTypes") EXCEPT !.textArg = text,
                                              !.pathsArg = globalPaths]
    /\ UNCHANGED <<disk, answer,
                   defaultGlobalPaths, pathname, globalPaths, types, version,
                   code, defaultsAtSet>>

\* a setter of the paths that also runs init().  The amended C17 does not hold
\* of it.
SetGlobalPathsAndInit(paths) ==
    LET made == InitInstance(pathname, types)
    IN /\ globalPaths' = NewSet(paths \o defaultGlobalPaths)
       /\ defaultsAtSet' = Range(defaultGlobalPaths)
       /\ code' = made.code
       /\ types' = made.types
       /\ last' = [Call("setGlobalPaths") EXCEPT !.pathsArg = paths]
       /\ UNCHANGED <<disk, answer, defaultGlobalPaths, pathname,
                      globalTypes, version>>

\* set globalPaths(paths)
SetGlobalPaths(paths) ==
    /\ globalPaths' = NewSet(paths \o defaultGlobalPaths)
    /\ defaultsAtSet' = Range(defaultGlobalPaths)
    /\ last' = [Call("setGlobalPaths") EXCEPT !.pathsArg = paths]
    /\ UNCHANGED <<disk, answer,
                   defaultGlobalPaths, pathname, globalTypes, types, version,
                   code>>

\* a setter of the version that also runs init().  C15 does not hold of it.
SetVersionAndInit(lib) ==
    LET made == InitInstance(pathname, types)
    IN /\ version' = lib
       /\ code' = made.code
       /\ types' = made.types
       /\ last' = [Call("setVersion") EXCEPT !.pathArg = lib]
       /\ UNCHANGED <<disk, answer, defaultGlobalPaths, pathname,
                      globalTypes, globalPaths, defaultsAtSet>>

\* set version(version)
SetVersion(lib) ==
    /\ version' = lib
    /\ last' = [Call("setVersion") EXCEPT !.pathArg = lib]
    /\ UNCHANGED <<disk, answer,
                   defaultGlobalPaths, pathname, globalTypes, globalPaths,
                   types, code, defaultsAtSet>>

\* CodeChecker.config.setGlobalPaths(paths)
ConfigSetGlobalPaths(paths) ==
    /\ defaultGlobalPaths' = paths
    /\ last' = [Call("config.setGlobalPaths") EXCEPT !.pathsArg = paths]
    /\ UNCHANGED <<disk, answer, fields, defaultsAtSet>>

\* a test that keeps the unit it compiled as the reference text.  C10 does not
\* hold of it.
TestKeepingUnit(testCode, typeName) ==
    LET t == PrivateTest(testCode, typeName)
    IN /\ last' = [Tested("test", testCode, typeName, t) EXCEPT
                      !.ret = IF t.threw THEN "none"
                              ELSE IF t.valid THEN "true" ELSE "false"]
       /\ code' = IF t.threw THEN code ELSE t.unit
       /\ UNCHANGED <<disk, answer,
                      defaultGlobalPaths, pathname, globalTypes, globalPaths,
                      types, version, defaultsAtSet>>

\* test(testCode, typeName): the boolean of the Verdict
Test(testCode, typeName) ==
    LET t == PrivateTest(testCode, typeName)
    IN /\ last' = [Tested("test", testCode, typeName, t) EXCEPT
                      !.ret = IF t.threw THEN "none"
                              ELSE IF t.valid THEN "true" ELSE "false"]
       /\ UNCHANGED <<disk, answer,
                      defaultGlobalPaths, fields, defaultsAtSet>>

\* assert(testCode, typeName): the pair { isValid, isNotValid } over the
\* Verdict of this call
AssertCode(testCode, typeName) ==
    LET t == PrivateTest(testCode, typeName)
    IN /\ last' = [Tested("assert", testCode, typeName, t) EXCEPT
                      !.ret = IF t.threw THEN "none" ELSE "asserter",
                      !.asserter = ~t.threw]
       /\ UNCHANGED <<disk, answer,
                      defaultGlobalPaths, fields, defaultsAtSet>>

\* an isValid that returns whatever the Verdict.  C2 does not hold of it.
IsValidNeverRaising(msg) ==
    /\ last.asserter
    /\ last' = [last EXCEPT
                   !.op = "isValid", !.msg = msg, !.threw = FALSE,
                   !.error = NoError, !.ret = "void"]
    /\ UNCHANGED <<disk, answer,
                   defaultGlobalPaths, fields, defaultsAtSet>>

\* isValid(msg) of the pair the last assert returned: assert(valid, TypeError).
\* The pair holds valid, messages and testCode of its assert call.
IsValid(msg) ==
    /\ last.asserter
    /\ last' = [last EXCEPT
                   !.op = "isValid", !.msg = msg, !.threw = ~last.valid,
                   !.error = IF last.valid THEN NoError
                             ELSE TypeMismatchError(last.messages, msg),
                   !.ret = IF last.valid THEN "void" ELSE "none"]
    /\ UNCHANGED <<disk, answer,
                   defaultGlobalPaths, fields, defaultsAtSet>>

\* isNotValid(msg) of the pair the last assert returned: assert(!valid, text)
IsNotValid(msg) ==
    /\ last.asserter
    /\ last' = [last EXCEPT
                   !.op = "isNotValid", !.msg = msg, !.threw = last.valid,
                   !.error = IF last.valid
                             THEN ExpectedInvalidError(last.snippet, msg)
                             ELSE NoError,
                   !.ret = IF last.valid THEN "none" ELSE "void"]
    /\ UNCHANGED <<disk, answer,
                   defaultGlobalPaths, fields, defaultsAtSet>>

\* the texts a reference file may be given: none, two aliases, the same name
\* twice, a nested alias beside a variable and an alias, and the same name
\* twice after a two-byte character
TextDup == <<"t", "B", "=", "s", ";", NL, "t", "B", "=", "n", ";", NL>>
TextNested ==
    <<"m", "{", "t", "Z", "=", "n", ";", "}", NL,
      "c", "s", "=", "q", ";", NL, "t", "A", "=", "s", ";", NL>>
TextDupAfterEAcute ==
    <<EAcute, NL, "t", "B", "=", "s", ";", NL, "t", "B", "=", "n", ";", NL>>
SourceTexts == {<<>>, TextA, TextDup, TextNested, TextDupAfterEAcute}

\* the file system: a file is written (by another program)
WriteFile(path, text) ==
    /\ disk' = [disk EXCEPT ![path] = FileOf(text)]
    /\ last' = [Call("writeFile") EXCEPT !.pathArg = path, !.textArg = text]
    /\ UNCHANGED <<answer, defaultGlobalPaths, fields, defaultsAtSet>>

\* the files the engine may ask the host for
HostPaths == AllPaths \cup {"temp.ts"}

\* no question asked yet
NoAnswer ==
    [asked |-> "", unit |-> <<>>, fileExists |-> FALSE,
     getSourceFile |-> [defined |-> FALSE, value |-> CreateSourceFile("", <<>>)],
     readFile |-> [defined |-> FALSE, value |-> <<>>]]

\* the engine asks the host built for the unit of the last call (the host of
\* createVirtualHost(sourceFile)) for a file: fileExists, getSourceFile and
\* readFile of the host, kept with the unit of that host
HostAnswers(filePath) ==
    LET sourceFile == CreateSourceFile("temp.ts", last.unit)
    IN /\ last.compiled
       /\ answer' = [asked |-> filePath, unit |-> last.unit,
                     fileExists |-> HostFileExists(sourceFile, filePath),
                     getSourceFile |-> HostGetSourceFile(sourceFile, filePath),
                     readFile |-> HostReadFile(sourceFile, filePath)]
       /\ UNCHANGED <<disk, defaultGlobalPaths, fields, defaultsAtSet,
                      last>>

\* the files as they are on disk
Disk ==
    [p \in AllPaths |->
        CASE p = "a.ts" -> FileOf(TextA)
          [] p = "b.ts" -> FileOf(TextB)
          [] p = "g.d.ts" -> FileOf(TextG)
          [] p = "h.d.ts" -> FileOf(TextH)
          [] OTHER -> NoFile]

\* the module is loaded (config.defaultGlobalPaths = []) and new CodeChecker()
\* has run
Init ==
    /\ disk = Disk
    /\ answer = NoAnswer
    /\ defaultGlobalPaths = <<>>
    /\ pathname = ""
    /\ globalTypes = <<>>
    /\ globalPaths = <<>>
    /\ types = <<>>
    /\ version = "es2022"
    /\ code = <<>>
    /\ defaultsAtSet = {}
    /\ last = [op |-> "construct", from |-> "", pathArg |-> "", textArg |-> <<>>,
               pathsArg |-> <<>>, typeName |-> Undefined, msg |-> Undefined,
               snippet |-> <<>>, threw |-> FALSE, error |-> NoError,
               ret |-> "void", compiled |-> FALSE, unit |-> <<>>,
               rootNames |-> <<>>, diagnostics |-> <<>>, valid |-> FALSE,
               messages |-> <<>>, asserter |-> FALSE, again |-> FALSE]

\* one instance, its reference file and its calls, under the configuration and
\* the library version it starts with
Next ==
    \/ \E options \in Options : Construct(options)
    \/ \E path \in PathnameArgs : SetPathname(path)
    \/ \E path \in PathnameArgs \cup {Undefined} : Restore(path)
    \/ \E text \in GlobalTypesArgs : SetGlobalTypes(text)
    \/ \E paths \in PathLists : SetGlobalPaths(paths)
    \/ \E testCode \in Snippets, typeName \in TypeNameArgs : Test(testCode, typeName)
    \/ \E testCode \in Snippets, typeName \in TypeNameArgs :
          AssertCode(testCode, typeName)
    \/ \E msg \in MsgArgs : IsValid(msg)
    \/ \E msg \in MsgArgs : IsNotValid(msg)

Spec == Init /\ [][Next]_vars

\* the process-wide configuration, and the instances made, set and called
\* under it (no reference file)
NextConfig ==
    \/ \E paths \in DefaultPathLists : ConfigSetGlobalPaths(paths)
    \/ \E options \in {o \in Options : o.pathname = ""} : Construct(options)
    \/ \E text \in GlobalTypesArgs : SetGlobalTypes(text)
    \/ \E paths \in PathLists : SetGlobalPaths(paths)
    \/ \E lib \in LibVersions : SetVersion(lib)
    \/ \E testCode \in Snippets, typeName \in TypeNameArgs : Test(testCode, typeName)
    \/ \E testCode \in Snippets, typeName \in TypeNameArgs :
          AssertCode(testCode, typeName)

SpecConfig == Init /\ [][NextConfig]_vars

\* the calls of an instance without a reference file on snippets with no, one
\* and two errors
NextMessages ==
    \/ \E text \in GlobalTypesArgs : SetGlobalTypes(text)
    \/ \E paths \in PathLists : SetGlobalPaths(paths)
    \/ \E testCode \in Snippets \cup {SnippetTwoErrors}, typeName \in TypeNameArgs :
          Test(testCode, typeName)
    \/ \E testCode \in Snippets \cup {SnippetTwoErrors}, typeName \in TypeNameArgs :
          AssertCode(testCode, typeName)
    \/ \E msg \in MsgArgs : IsValid(msg)

SpecMessages == Init /\ [][NextMessages]_vars

\* the calls that build a host, and the questions of the engine to the host
NextHost ==
    \/ \E text \in GlobalTypesArgs : SetGlobalTypes(text)
    \/ \E paths \in PathLists : SetGlobalPaths(paths)
    \/ \E testCode \in Snippets, typeName \in TypeNameArgs : Test(testCode, typeName)
    \/ \E filePath \in HostPaths : HostAnswers(filePath)

SpecHost == Init /\ [][NextHost]_vars

\* an instance and its reference file, which changes on disk
NextDisk ==
    \/ \E text \in SourceTexts : WriteFile("a.ts", text)
    \/ \E path \in PathnameArgs : SetPathname(path)
    \/ \E path \in PathnameArgs \cup {Undefined} : Restore(path)
    \/ \E text \in GlobalTypesArgs : SetGlobalTypes(text)
    \/ \E paths \in SeqsUpTo(GlobalFiles, 1) : SetGlobalPaths(paths)
    \/ \E lib \in LibVersions : SetVersion(lib)

SpecDisk == Init /\ [][NextDisk]_vars

\* ----------------------------------------------------------------- claims

\* the last call was test or assert, and it compiled a unit
Checked == last.op \in {"test", "assert"} /\ last.compiled

\* the names of the top-level type alias declarations of a text
AliasNames(text) ==
    {node.name : node \in {n \in Range(CreateSourceFile("f.ts", text).statements) :
                              IsTypeAliasDeclaration(n)}}

\* C1: a test call with no type name, or with one that is a key of the Type
\* Table, does not raise; a test call that does not raise returns a boolean,
\* and it returns true exactly when the list of diagnostics of the unit it
\* compiled is empty.
C1_TestReturnsWhetherNoDiagnostic ==
    last.op = "test" =>
        /\ last.typeName \in {Undefined} \cup MapKeys(types) => ~last.threw
        /\ ~last.threw =>
              /\ last.compiled
              /\ last.ret \in {"true", "false"}
              /\ (last.ret = "true") <=> (last.diagnostics = <<>>)

\* C1 witness: test with a type name of the table returned false on a unit with
\* a diagnostic
C1_Witness ==
    /\ last.op = "test"
    /\ last.typeName = "A"
    /\ last.typeName \in MapKeys(types)
    /\ last.ret = "false"
    /\ Len(last.diagnostics) > 0

\* C2: an assert call that computes a Verdict returns the pair without raising,
\* whatever the Verdict; isValid of that pair raises (a TypeError with the
\* diagnostic messages) exactly when the unit of that assert call had a
\* diagnostic, and isNotValid raises (an AssertionError) exactly when it had none.
C2_AssertRaisesOnlyOnRequest ==
    /\ (last.op = "assert" /\ last.typeName \in {Undefined} \cup MapKeys(types)) =>
          ~last.threw /\ last.ret = "asserter"
    /\ last.op = "isValid" =>
          /\ last.threw <=> (last.diagnostics # <<>>)
          /\ last.threw => /\ last.error.name = "TypeError"
                           /\ SubSeq(last.error.message, 1, Len(last.diagnostics))
                              = MapMessages(last.diagnostics)
    /\ last.op = "isNotValid" =>
          /\ last.threw <=> (last.diagnostics = <<>>)
          /\ last.threw => last.error.name = "AssertionError"

\* C2 witness: isValid("m") raised for an assert whose unit had a diagnostic
C2_Witness ==
    /\ last.op = "isValid"
    /\ last.msg = "m"
    /\ last.threw
    /\ Len(last.diagnostics) > 0
    /\ Len(last.error.message) = Len(last.diagnostics) + 1

\* C3 as claimed: test or assert with a type name that is not a key of the Type
\* Table raises the error naming the type and the current path, returns
\* nothing and compiles nothing.
C3_UnknownTypeNameRaises ==
    (/\ last.op \in {"test", "assert"}
     /\ last.typeName # Undefined
     /\ last.typeName \notin MapKeys(types)) =>
        /\ last.threw
        /\ last.error = TypeNotFoundError(last.typeName, pathname)
        /\ last.ret = "none"
        /\ ~last.compiled

\* the Type Table a text gives: its keys are the names of the text's top-level
\* type alias declarations, each once, and the value of a key is the slice of
\* the text's bytes at the offsets of the last declaration of that name
TableIsOf(table, text) ==
    LET nodes == TypeNodes(CreateSourceFile("f.ts", text).statements)
        lastOf(name) ==
            nodes[CHOOSE i \in 1..Len(nodes) :
                     /\ nodes[i].name = name
                     /\ \A j \in (i + 1)..Len(nodes) : nodes[j].name # name]
        slice(node) == ToStringUtf8(Subarray(BufferFrom(text), node.pos, node.end))
    IN /\ MapKeys(table) = AliasNames(text)
       /\ Len(table) = Cardinality(AliasNames(text))
       /\ \A i \in 1..Len(table) : table[i].value = slice(lastOf(table[i].key))

\* C4: after the path is set from a readable file to a readable file, the Type
\* Table is the table of the new file alone: its keys are the new file's type
\* alias names and its values are slices of the new file; nothing of the old
\* table is left.
C4_PathSetRederivesTable ==
    (/\ last.op = "setPathname"
     /\ last.from \in RefPaths
     /\ pathname \in RefPaths) =>
        /\ ~last.threw
        /\ code = disk[pathname].value
        /\ TableIsOf(types, disk[pathname].value)

\* C4 witness: the path went from a.ts (A and B) to b.ts (B only) and the table
\* has the one key B
C4_Witness ==
    /\ last.op = "setPathname"
    /\ last.from = "a.ts"
    /\ pathname = "b.ts"
    /\ "A" \in AliasNames(disk["a.ts"].value)
    /\ MapKeys(types) = {"B"}

\* one text starts with the other
IsPrefix(prefix, text) ==
    Len(prefix) <= Len(text) /\ SubSeq(text, 1, Len(prefix)) = prefix

\* C5: the global declarations text given at construction or by the setter
\* stays the instance's until the next construction or set, and every unit a
\* test or assert call compiles starts with it; the setter of the text leaves
\* the global declaration paths, with the defaults they took up, as they were,
\* and every one of these paths is a root of the call.
C5_GlobalTypesInEveryLaterUnit ==
    [][/\ (last'.op = "setGlobalTypes" \/ (last'.op = "construct" /\ ~last'.threw))
            => globalTypes' = last'.textArg
       /\ last'.op \notin {"setGlobalTypes", "construct"}
            => globalTypes' = globalTypes
       /\ last'.op = "setGlobalTypes"
            => /\ globalPaths' = globalPaths
               /\ defaultsAtSet \subseteq Range(globalPaths')
       /\ (last'.op \in {"test", "assert"} /\ last'.compiled)
            => /\ IsPrefix(globalTypes, last'.unit)
               /\ Range(globalPaths) \subseteq Range(last'.rootNames)]_vars

\* C5 witness: a test compiled a unit that starts with the global text set
\* earlier, with the default path h.d.ts among its roots
C5_Witness ==
    /\ last.op = "test"
    /\ last.compiled
    /\ globalTypes = TextGlobalB
    /\ IsPrefix(TextGlobalB, last.unit)
    /\ "h.d.ts" \in defaultsAtSet
    /\ "h.d.ts" \in Range(last.rootNames)

\* C6 as claimed: at every test or assert call the roots include every path of
\* the process-wide default list as it is at the time of the call.
C6_RootsIncludeDefaultsAtCall ==
    Checked => Range(defaultGlobalPaths) \subseteq Range(last.rootNames)

\* no element occurs twice
NoDuplicates(seq) ==
    \A i, j \in 1..Len(seq) : seq[i] = seq[j] => i = j

\* the place of the first occurrence of an element
FirstIndex(seq, x) ==
    CHOOSE i \in 1..Len(seq) : seq[i] = x /\ \A j \in 1..(i - 1) : seq[j] # x

\* the elements of result come in the order of their first occurrence in source
InOrderOf(result, source) ==
    \A i, j \in 1..Len(result) :
        i < j => FirstIndex(source, result[i]) < FirstIndex(source, result[j])

\* C7: after a construction with paths P, or after globalPaths is set to P,
\* the instance's paths have no duplicate, their elements are those of P and
\* of the default list as it is then, and they come in the order of their first
\* occurrence in P followed by the defaults.
C7_GlobalPathsAreUnionWithDefaults ==
    (last.op \in {"construct", "setGlobalPaths"} /\ ~last.threw) =>
        /\ NoDuplicates(globalPaths)
        /\ Range(globalPaths) = Range(last.pathsArg) \cup Range(defaultGlobalPaths)
        /\ InOrderOf(globalPaths, last.pathsArg \o defaultGlobalPaths)

\* C7 witness: P names h.d.ts, which is a default too, before g.d.ts
C7_Witness ==
    /\ last.op = "setGlobalPaths"
    /\ last.pathsArg = <<"h.d.ts", "g.d.ts">>
    /\ "h.d.ts" \in Range(defaultGlobalPaths)
    /\ globalPaths = <<"h.d.ts", "g.d.ts">>

\* the body of the unit of the last call: the whole reference text without a
\* type name, the empty text for the type name '', else what the table holds
BodyOfLast ==
    CASE last.typeName = Undefined -> code
      [] last.typeName = "" -> <<>>
      [] OTHER -> MapGet(types, last.typeName).value

\* C8 as claimed: the unit is the global text, "\n", the body, "\n" and the
\* snippet, the body being the selected declaration's text with a type name and
\* the whole reference text without one, also when the global text is empty.
C8_UnitAlwaysHasGlobalLine ==
    Checked =>
        last.unit = globalTypes \o <<NL>>
                    \o (IF last.typeName = Undefined THEN code
                        ELSE MapGet(types, last.typeName).value)
                    \o <<NL>> \o last.snippet

\* C8 amended: the unit is the body, "\n" and the snippet, after the global
\* text and "\n" only when the global text is not empty; the body is the whole
\* reference text without a type name, the empty text for the type name '',
\* else the text the Type Table holds for the name.
C8_UnitHasGlobalLineWhenNotEmpty ==
    Checked =>
        /\ globalTypes = <<>> => last.unit = BodyOfLast \o <<NL>> \o last.snippet
        /\ globalTypes # <<>> =>
              last.unit = globalTypes \o <<NL>> \o BodyOfLast \o <<NL>> \o last.snippet

\* C8 witness: a unit with the type name A and no global text starts with the
\* text of A
C8_Witness ==
    /\ Checked
    /\ globalTypes = <<>>
    /\ last.typeName = "A"
    /\ MapHas(types, "A")
    /\ last.unit = MapGet(types, "A").value \o <<NL>> \o last.snippet

\* the type names the variable statements of a text refer to
References(text) ==
    {node.type : node \in {n \in Range(CreateSourceFile("f.ts", text).statements) :
                              n.kind = "VariableStatement"}}
    \cap Identifiers

\* the type names the roots other than the unit declare for every file: the
\* names of the standard library and those of the readable global declaration
\* files that are not modules
AmbientNames ==
    LibDeclares(version)
    \cup UNION {AliasNames(disk[p].value) :
                   p \in {q \in Range(globalPaths) :
                             /\ RealFileExists(q)
                             /\ ~IsModule(CreateSourceFile(q, disk[q].value))}}

\* the siblings of the type name of the last call: the other type names of the
\* reference file that the global text does not declare
Siblings ==
    (AliasNames(code) \ {last.typeName}) \ AliasNames(globalTypes)

\* C9 as claimed: with a type name T of the table, a snippet that refers to a
\* sibling of T that the global text does not declare is invalid, whatever the
\* global declaration paths are.
C9_SiblingNeverVisible ==
    (/\ Checked
     /\ last.typeName \in MapKeys(types)
     /\ References(last.snippet) \cap Siblings # {}) => ~last.valid

\* C9 amended: with a type name T of the table, a snippet that refers to a
\* sibling of T is invalid when the sibling is declared neither by the global
\* text, nor by the snippet, nor by the text the table holds for T, nor by the
\* standard library or a global declaration file among the roots.
C9_SiblingVisibleOnlyThroughGlobals ==
    (/\ Checked
     /\ last.typeName \in MapKeys(types)
     /\ (References(last.snippet) \cap Siblings)
        \ (AmbientNames \cup AliasNames(last.snippet)
           \cup AliasNames(MapGet(types, last.typeName).value)) # {}) => ~last.valid

\* C9 witness: with the type name A of a.ts and no global declaration, the
\* snippet that refers to B is invalid
C9_Witness ==
    /\ Checked
    /\ pathname = "a.ts"
    /\ last.typeName = "A"
    /\ last.snippet = SnippetB
    /\ "B" \in Siblings \ AmbientNames
    /\ ~last.valid

\* C10: a test or assert call changes no field of the instance, no file and
\* not the process-wide configuration, and a test call that follows a test
\* call with the same snippet and type name returns the same boolean and the
\* same messages.
C10_TestChangesNothing ==
    [][/\ last'.op \in {"test", "assert"} =>
             UNCHANGED <<fields, defaultGlobalPaths, disk>>
       /\ last'.again => /\ last'.ret = last.ret
                         /\ last'.valid = last.valid
                         /\ last'.messages = last.messages]_vars

\* C10 witness: the second of two equal test calls, returning false with
\* messages
C10_Witness ==
    /\ last.op = "test"
    /\ last.again
    /\ last.ret = "false"
    /\ Len(last.messages) > 0

\* text.substring(pos, end): the code units at the 0-based offsets pos..end-1
Substring(text, pos, end) == SubSeq(text, pos + 1, end)

\* C11 as claimed: every value of the Type Table is the substring of the
\* reference text between the offsets pos and end the parser reports for a
\* declaration of its key, also when a character of more than one byte comes
\* before or inside the declaration.
C11_ValuesAreSourceSpans ==
    \A i \in 1..Len(types) :
        \E node \in Range(TypeNodes(CreateSourceFile("f.ts", code).statements)) :
            /\ node.name = types[i].key
            /\ types[i].value = Substring(code, node.pos, node.end)

\* the diagnostics before emission, and those of the emission, of the unit of
\* the last call
PreEmitOfLast ==
    GetPreEmitDiagnostics(CreateSourceFile("temp.ts", last.unit),
                          <<"temp.ts">> \o globalPaths, version)
EmitOfLast ==
    EmitDiagnostics(CreateSourceFile("temp.ts", last.unit),
                    <<"temp.ts">> \o globalPaths, version)

\* C12: the messages of a Verdict are, one per diagnostic, the messages of the
\* diagnostics before emission in the checker's order, followed by those of
\* the diagnostics of the emission (of which, with the default options and a
\* host that writes nothing, there is none).
C12_PreEmitMessagesFirst ==
    Checked =>
        /\ Len(last.messages) = Len(PreEmitOfLast) + Len(EmitOfLast)
        /\ \A i \in 1..Len(PreEmitOfLast) :
              last.messages[i] = PreEmitOfLast[i].messageText
        /\ \A j \in 1..Len(EmitOfLast) :
              last.messages[Len(PreEmitOfLast) + j] = EmitOfLast[j].messageText

\* C12 witness: the Verdict of the snippet with two errors: "Cannot find name
\* 'Z'" of its first statement before "Type 'number' is not assignable to type
\* 'string'" of its second
C12_Witness ==
    /\ Checked
    /\ last.snippet = SnippetTwoErrors
    /\ Len(PreEmitOfLast) = 2
    /\ last.messages = <<Message("TS2304", "Z", ""),
                         Message("TS2322", "number", "string")>>

\* C13 as claimed: for 'temp.ts' the host answers that the file exists and
\* gives the unit held in memory; for every other file each of fileExists,
\* getSourceFile and readFile answers what the host of the file system
\* answers; nothing is written to the file system.
C13_HostDelegatesButForUnit ==
    /\ disk = Disk
    /\ answer.asked = "temp.ts" =>
          /\ answer.fileExists
          /\ answer.getSourceFile
             = [defined |-> TRUE,
                value |-> CreateSourceFile("temp.ts", answer.unit)]
          /\ answer.readFile = [defined |-> TRUE, value |-> answer.unit]
    /\ answer.asked \in AllPaths =>
          /\ answer.fileExists = RealFileExists(answer.asked)
          /\ answer.getSourceFile = RealGetSourceFile(answer.asked)
          /\ answer.readFile = RealReadFile(answer.asked)

\* the top-level statements of a text
Statements(text) == CreateSourceFile("f.ts", text).statements

\* the names of the type aliases declared inside the namespaces of a text
NestedAliasNames(text) ==
    UNION {AliasNames(Substring(text, node.pos, node.end - 1)) :
              node \in {n \in Range(Statements(text)) :
                           n.kind = "ModuleDeclaration"}}

\* the last top-level type alias declaration of a name in a text
LastDeclaration(text, name) ==
    LET st == Statements(text)
    IN st[CHOOSE i \in 1..Len(st) :
             /\ IsTypeAliasDeclaration(st[i]) /\ st[i].name = name
             /\ \A j \in (i + 1)..Len(st) :
                   ~(IsTypeAliasDeclaration(st[j]) /\ st[j].name = name)]

\* the keys of the Type Table are the names of the top-level type alias
\* declarations of the reference text, each once: no key for another kind of
\* statement or for an alias nested in a namespace alone, none for an empty text
KeysAreTopLevelAliases ==
    /\ MapKeys(types) = AliasNames(code)
    /\ NoDuplicates([i \in 1..Len(types) |-> types[i].key])
    /\ \A name \in NestedAliasNames(code) \ AliasNames(code) :
          name \notin MapKeys(types)
    /\ code = <<>> => types = <<>>

\* C14 as claimed: the keys of the table are the names of the top-level type
\* alias declarations of the text, and the value of a name, also of one that
\* occurs more than once, is the text of its last declaration.
C14_KeysAndLastDeclarationText ==
    /\ KeysAreTopLevelAliases
    /\ \A i \in 1..Len(types) :
          LET node == LastDeclaration(code, types[i].key)
          IN types[i].value = Substring(code, node.pos, node.end)

\* C15: the setters of globalTypes, globalPaths and version change their own
\* field alone: globalTypes becomes the given text, version the given tag, and
\* the reference path, the reference text and the Type Table stay as they
\* were, without a new read of the file; the reference text and the table
\* change only when the path is set or restore is called.
C15_SettersChangeOwnFieldOnly ==
    [][/\ last'.op = "setGlobalTypes" =>
             /\ globalTypes' = last'.textArg
             /\ UNCHANGED <<pathname, code, types, globalPaths, version>>
       /\ last'.op = "setGlobalPaths" =>
             UNCHANGED <<pathname, code, types, globalTypes, version>>
       /\ last'.op = "setVersion" =>
             /\ version' = last'.pathArg
             /\ UNCHANGED <<pathname, code, types, globalTypes, globalPaths>>
       /\ <<code, types>>' # <<code, types>> =>
             last'.op \in {"setPathname", "restore"}]_vars

\* C15 witness: the global text was set after the reference file had changed
\* on disk, and the reference text and the table are still those read before
C15_Witness ==
    /\ last.op = "setGlobalTypes"
    /\ globalTypes = TextGlobalB
    /\ pathname = "a.ts"
    /\ disk["a.ts"].value = TextDup
    /\ code = TextA
    /\ MapKeys(types) = {"A", "B"}

\* C16 as claimed: after any calls, failed ones included, the reference text
\* is the content of the file at the path the instance reports (empty for the
\* empty path) and the Type Table is the extraction of the reference text.
C16_ReferenceStateAgrees ==
    /\ pathname = "" => code = <<>>
    /\ pathname # "" => RealFileExists(pathname) /\ code = disk[pathname].value
    /\ types = ExtractTypesAsStrings(<<>>, code)

\* a reference text and a Type Table are those of the file at a path, as the
\* file is now
DerivedFromFile(path, text, table) ==
    /\ text = (IF path = "" THEN <<>> ELSE disk[path].value)
    /\ table = ExtractTypesAsStrings(<<>>, text)

DerivedFromFileNow == DerivedFromFile(pathname, code, types)

\* C17 as claimed: after the path, the global text or the global paths are
\* set, the Type Table is derived from the contents the reference file has at
\* the time of the set, also when the file changed on disk before a set of the
\* global text or of the global paths.
C17_EverySetRederivesTable ==
    (/\ last.op \in {"setPathname", "setGlobalTypes", "setGlobalPaths"}
     /\ ~last.threw
     /\ (pathname = "" \/ RealFileExists(pathname))) => DerivedFromFileNow

\* C17 amended: the Type Table is derived from the contents the reference file
\* has at that time when the path is set or restore is called and the file is
\* read; a set of the global text or of the global paths reads no file and
\* leaves the reference text and the table as they were, also when the file
\* has changed on disk.
C17_OnlyPathSetRederivesTable ==
    [][/\ (last'.op \in {"setPathname", "restore"} /\ ~last'.threw) =>
             DerivedFromFile(pathname', code', types')
       /\ last'.op \in {"setGlobalTypes", "setGlobalPaths"} =>
             UNCHANGED <<code, types>>]_vars

\* C17 witness: the global paths were set after a.ts had changed on disk, and
\* the table is still the one of the text read before
C17_Witness ==
    /\ last.op = "setGlobalPaths"
    /\ pathname = "a.ts"
    /\ disk["a.ts"].value = TextNested
    /\ code = TextA
    /\ MapKeys(types) = {"A", "B"}
    /\ ~DerivedFromFileNow

=============================================================================
